---- MODULE Spec2Model ----
(***************************************************************************)
(* ReplaceRunnerLabels (remediation/workflow/runnerlabel/runnerlabel.go):  *)
(* a workflow text is parsed into a position-annotated tree, the runs-on   *)
(* values that are keys of the label map are collected as replacement      *)
(* descriptors, and the descriptors are applied to the physical lines of   *)
(* the original text.                                                      *)
(*                                                                         *)
(* A text is a sequence of one-character strings; lines and columns are    *)
(* character offsets exactly as in the Go code.                            *)
(***************************************************************************)
EXTENDS Integers, Sequences, FiniteSets, TLC

\* ------------------------------------------------------------------ bounds
\* Largest number of runner labels written in the runs-on fields of one document.
MaxLabels == 3

\* ------------------------------------------------------------- characters
NL == "\n"
SP == " "
QUOTE == "\""
HASH == "#"
COLON == ":"
COMMA == ","
DASH == "-"
LBRACKET == "["
RBRACKET == "]"

\* The key findRunsOnNode looks for, and the key handed to IterateNode.
RUNS_ON == <<"r", "u", "n", "s", "-", "o", "n">>
JOBS == <<"j", "o", "b", "s">>

\* --------------------------------------------------------- string helpers
\* s[a:b] of Go: the characters at 0-based offsets a .. b-1.
Slice(s, a, b) == SubSeq(s, a + 1, b)

\* strings.HasPrefix(Slice(s, p, len(s)), sub)
HasAt(s, sub, p) ==
  /\ p + Len(sub) <= Len(s)
  /\ \A k \in 1..Len(sub) : s[p + k] = sub[k]

\* strings.Index: 0-based offset of the first occurrence of sub in s, or -1.
Index(s, sub) ==
  LET hits == {p \in 0..(Len(s) - Len(sub)) : HasAt(s, sub, p)}
  IN IF hits = {} THEN -1 ELSE CHOOSE p \in hits : \A q \in hits : p <= q

\* strings.Replace(s, old, new, 1) for a non-empty old.
ReplaceFirstAnywhere(s, old, new) ==
  LET p == Index(s, old)
  IN IF p = -1 THEN s
     ELSE Slice(s, 0, p) \o new \o Slice(s, p + Len(old), Len(s))

\* The 1-based position of the k-th separator of s.
SeparatorAt(s, sep, k) ==
  CHOOSE p \in 1..Len(s) :
    /\ s[p] = sep
    /\ Cardinality({q \in 1..(p - 1) : s[q] = sep}) = k - 1

\* strings.Split(s, "\n"): the pieces between the separators, always at
\* least one; a trailing separator yields a final empty piece.
Split(s, sep) ==
  LET n == Cardinality({p \in 1..Len(s) : s[p] = sep})
  IN [k \in 1..(n + 1) |->
        SubSeq(s,
               IF k = 1 THEN 1 ELSE SeparatorAt(s, sep, k - 1) + 1,
               IF k = n + 1 THEN Len(s) ELSE SeparatorAt(s, sep, k) - 1)]

RECURSIVE Join(_, _)
\* strings.Join(lines, "\n")
Join(lines, sep) ==
  IF Len(lines) = 0 THEN <<>>
  ELSE IF Len(lines) = 1 THEN lines[1]
  ELSE lines[1] \o <<sep>> \o Join(Tail(lines), sep)

\* ------------------------------------------------------------ yaml.Node
\* The fields of yaml.Node the program reads.  Line and Column are 1-based,
\* as the parser reports them.
Node(kind, value, line, column, content) ==
  [Kind |-> kind, Value |-> value, Line |-> line, Column |-> column,
   Content |-> content]

\* A nil *yaml.Node.
NilNode == Node("Nil", <<>>, 0, 0, <<>>)

\* The zero yaml.Node (what Unmarshal leaves for an empty document).
ZeroNode == Node("Zero", <<>>, 0, 0, <<>>)

\* ---------------------------------------------------------- yaml parser
\* yaml.Unmarshal into a yaml.Node, for the block-style subset the workflows
\* here are written in: block mappings and block sequences nested by
\* indentation, single-line plain and double-quoted scalars, single-line
\* flow sequences of scalars, trailing comments and blank lines.  A flow
\* sequence that is not closed on its line, an unterminated quote, a line
\* that is neither "key:", "key: value" nor "- value", and inconsistent
\* indentation are parse errors.

\* Number of leading spaces of a line.
Indent(line) ==
  LET nonsp == {p \in 0..(Len(line) - 1) : line[p + 1] # SP}
  IN IF nonsp = {} THEN Len(line)
     ELSE CHOOSE p \in nonsp : \A q \in nonsp : p <= q

\* Offset where a comment starts (a "#" at the start of the line or after a
\* space), or the length of the line.
CommentStart(line) ==
  LET hs == {p \in 0..(Len(line) - 1) :
               line[p + 1] = HASH /\ (p = 0 \/ line[p] = SP)}
  IN IF hs = {} THEN Len(line)
     ELSE CHOOSE p \in hs : \A q \in hs : p <= q

\* End (exclusive) of the content in line[0:e) once trailing spaces are dropped.
TrimEnd(line, e) ==
  LET nonsp == {p \in 1..e : line[p] # SP}
  IN IF nonsp = {} THEN 0
     ELSE CHOOSE p \in nonsp : \A q \in nonsp : q <= p

\* First offset in [a, e) that is not a space, or e.
SkipSpaces(line, a, e) ==
  LET nonsp == {p \in a..(e - 1) : line[p + 1] # SP}
  IN IF nonsp = {} THEN e
     ELSE CHOOSE p \in nonsp : \A q \in nonsp : p <= q

ParseFail == [ok |-> FALSE, node |-> NilNode]
ParseOk(n) == [ok |-> TRUE, node |-> n]

\* A scalar written in line[a:e) (no surrounding spaces), on line ln.
\* A double-quoted scalar's position is that of its opening quote.
ParseScalar(line, a, e, ln, inFlow) ==
  IF a >= e THEN ParseFail
  ELSE IF line[a + 1] = QUOTE
    THEN IF e - a >= 2 /\ line[e] = QUOTE
              /\ \A p \in (a + 2)..(e - 1) : line[p] # QUOTE
         THEN ParseOk(Node("ScalarNode", Slice(line, a + 1, e - 1), ln, a + 1, <<>>))
         ELSE ParseFail
  ELSE IF \/ line[a + 1] \in {LBRACKET, RBRACKET, COMMA}
          \/ \E p \in (a + 1)..e : line[p] = QUOTE
          \/ inFlow /\ \E p \in (a + 1)..e : line[p] \in {LBRACKET, RBRACKET}
    THEN ParseFail
  ELSE ParseOk(Node("ScalarNode", Slice(line, a, e), ln, a + 1, <<>>))

\* Offset of the first comma in [a, e), or e.
FirstComma(line, a, e) ==
  LET commas == {p \in a..(e - 1) : line[p + 1] = COMMA}
  IN IF commas = {} THEN e
     ELSE CHOOSE p \in commas : \A q \in commas : p <= q

\* End (exclusive) of the content in line[s:c) once trailing spaces are dropped.
TrimEndIn(line, s, c) ==
  LET nonsp == {p \in (s + 1)..c : line[p] # SP}
  IN IF nonsp = {} THEN s
     ELSE CHOOSE p \in nonsp : \A q \in nonsp : q <= p

RECURSIVE ParseFlowItems(_, _, _, _, _)

\* After the element that ends at the comma (or end) c has been parsed.
FlowItemDone(line, e, ln, acc, c, item) ==
  IF ~item.ok THEN [ok |-> FALSE, items |-> <<>>]
  ELSE IF c = e THEN [ok |-> TRUE, items |-> Append(acc, item.node)]
  ELSE ParseFlowItems(line, c + 1, e, ln, Append(acc, item.node))

\* The element written in line[s:c), surrounding spaces dropped.
FlowItemAt(line, e, ln, acc, c, s) ==
  FlowItemDone(line, e, ln, acc, c,
               ParseScalar(line, s, TrimEndIn(line, s, c), ln, TRUE))

\* The element of a flow sequence that starts at a and ends at the comma c.
FlowItemTo(line, a, e, ln, acc, c) ==
  FlowItemAt(line, e, ln, acc, c, SkipSpaces(line, a, c))

\* The elements of a flow sequence written in line[a:e), separated by commas.
ParseFlowItems(line, a, e, ln, acc) ==
  FlowItemTo(line, a, e, ln, acc, FirstComma(line, a, e))

\* The flow sequence node at offset a of line ln with the parsed elements.
FlowNode(a, ln, items) ==
  IF items.ok THEN ParseOk(Node("SequenceNode", <<>>, ln, a + 1, items.items))
  ELSE ParseFail

\* The value written in line[a:e): a flow sequence, or a scalar.
ParseValue(line, a, e, ln) ==
  IF line[a + 1] = LBRACKET
  THEN IF e - a < 2 \/ line[e] # RBRACKET THEN ParseFail
       ELSE IF SkipSpaces(line, a + 1, e - 1) = e - 1
         THEN ParseOk(Node("SequenceNode", <<>>, ln, a + 1, <<>>))
       ELSE FlowNode(a, ln, ParseFlowItems(line, a + 1, e - 1, ln, <<>>))
  ELSE ParseScalar(line, a, e, ln, FALSE)

\* What one physical line holds: nothing ("blank"), "key:" or "key: value"
\* ("entry"), "- value" ("item"), or something outside the grammar ("bad").
Scanned(kind, ind, key, hasVal, val) ==
  [kind |-> kind, indent |-> ind, key |-> key, hasVal |-> hasVal, val |-> val]

\* A line "- value" once its value has been parsed.
ItemOf(ind, v) ==
  IF v.ok THEN Scanned("item", ind, NilNode, TRUE, v.node)
  ELSE Scanned("bad", ind, NilNode, FALSE, NilNode)

\* A line that starts with a dash; its value starts at vs.
ScanItem(line, ln, ind, e, vs) ==
  IF vs >= e THEN Scanned("item", ind, NilNode, FALSE, NilNode)
  ELSE ItemOf(ind, ParseValue(line, vs, e, ln))

\* Offset of the colon that ends the key: the first colon in [ind, e) that
\* is followed by a space or ends the content; -1 when there is none.
KeyColon(line, ind, e) ==
  LET cs == {p \in ind..(e - 1) :
               line[p + 1] = COLON /\ (p + 1 = e \/ line[p + 2] = SP)}
  IN IF cs = {} THEN -1
     ELSE CHOOSE p \in cs : \A q \in cs : p <= q

\* A line "key: value" once its value has been parsed.
EntryVal(ind, key, v) ==
  IF v.ok THEN Scanned("entry", ind, key, TRUE, v.node)
  ELSE Scanned("bad", ind, NilNode, FALSE, NilNode)

\* A line "key:" or "key: value" once its key has been parsed; the value
\* starts at vs.
EntryOf(line, ln, ind, e, k, vs) ==
  IF ~k.ok THEN Scanned("bad", ind, NilNode, FALSE, NilNode)
  ELSE IF vs >= e THEN Scanned("entry", ind, k.node, FALSE, NilNode)
  ELSE EntryVal(ind, k.node, ParseValue(line, vs, e, ln))

\* A line that does not start with a dash; c is the offset of its key's colon.
ScanEntry(line, ln, ind, e, c) ==
  IF c <= ind \/ \E p \in (ind + 1)..c : line[p] = SP
  THEN Scanned("bad", ind, NilNode, FALSE, NilNode)
  ELSE EntryOf(line, ln, ind, e, ParseScalar(line, ind, c, ln, FALSE),
               SkipSpaces(line, c + 1, e))

\* A line whose indentation is ind and whose content ends at e.
ScanContent(line, ln, ind, e) ==
  IF e <= ind THEN Scanned("blank", ind, NilNode, FALSE, NilNode)
  ELSE IF line[ind + 1] = DASH /\ (ind + 1 = e \/ line[ind + 2] = SP)
    THEN ScanItem(line, ln, ind, e, SkipSpaces(line, ind + 1, e))
  ELSE ScanEntry(line, ln, ind, e, KeyColon(line, ind, e))

ScanLine(line, ln) ==
  ScanContent(line, ln, Indent(line), TrimEnd(line, CommentStart(line)))

\* Index of the first line at or after i that is not blank, or Len(sc) + 1.
NextNonBlank(sc, i) ==
  LET js == {j \in i..Len(sc) : sc[j].kind # "blank"}
  IN IF js = {} THEN Len(sc) + 1
     ELSE CHOOSE j \in js : \A q \in js : j <= q

\* An omitted value: the null scalar.
NullScalar(ln) == Node("ScalarNode", <<>>, ln, 0, <<>>)

BlockFail == [ok |-> FALSE, node |-> NilNode, next |-> 0]

RECURSIVE ParseBlock(_, _, _)
RECURSIVE ParseMap(_, _, _, _)
RECURSIVE ParseSeq(_, _, _, _)

\* The entry on line j has the nested block sub as its value.
MapSub(sc, ind, acc, j, sub) ==
  IF sub.ok THEN ParseMap(sc, sub.next, ind, acc \o <<sc[j].key, sub.node>>)
  ELSE BlockFail

\* The entry on line j has no value on its line; k is the next line with
\* content: a deeper one starts the nested value, otherwise the value is null.
MapNested(sc, ind, acc, j, k) ==
  IF k <= Len(sc) /\ sc[k].indent > ind
  THEN MapSub(sc, ind, acc, j, ParseBlock(sc, k, sc[k].indent))
  ELSE ParseMap(sc, j + 1, ind, acc \o <<sc[j].key, NullScalar(j)>>)

\* The mapping continues (or ends) at line j, the next line with content.
MapAt(sc, ind, acc, j) ==
  IF j > Len(sc) \/ sc[j].indent < ind
  THEN [ok |-> TRUE, node |-> Node("MappingNode", <<>>, 0, ind + 1, acc),
        next |-> j]
  ELSE IF sc[j].indent > ind \/ sc[j].kind # "entry" THEN BlockFail
  ELSE IF sc[j].hasVal
    THEN ParseMap(sc, j + 1, ind, acc \o <<sc[j].key, sc[j].val>>)
  ELSE MapNested(sc, ind, acc, j, NextNonBlank(sc, j + 1))

\* The block mapping whose keys sit at indentation ind, from line i on.
ParseMap(sc, i, ind, acc) == MapAt(sc, ind, acc, NextNonBlank(sc, i))

\* The sequence continues (or ends) at line j, the next line with content.
SeqAt(sc, ind, acc, j) ==
  IF j > Len(sc) \/ sc[j].indent < ind
  THEN [ok |-> TRUE, node |-> Node("SequenceNode", <<>>, 0, ind + 1, acc),
        next |-> j]
  ELSE IF sc[j].indent > ind \/ sc[j].kind # "item" \/ ~sc[j].hasVal
    THEN BlockFail
  ELSE ParseSeq(sc, j + 1, ind, Append(acc, sc[j].val))

\* The block sequence whose dashes sit at indentation ind, from line i on.
ParseSeq(sc, i, ind, acc) == SeqAt(sc, ind, acc, NextNonBlank(sc, i))

ParseBlock(sc, i, ind) ==
  IF sc[i].kind = "item" THEN ParseSeq(sc, i, ind, <<>>)
  ELSE ParseMap(sc, i, ind, <<>>)

\* The document of the scanned lines: the root block must use every line.
DocumentOf(sc, root) ==
  IF root.ok /\ root.next > Len(sc)
  THEN [err |-> FALSE, t |-> Node("DocumentNode", <<>>, 1, 1, <<root.node>>)]
  ELSE [err |-> TRUE, t |-> ZeroNode]

\* j is the first line with content.
ParseFrom(sc, j) ==
  IF j > Len(sc) THEN [err |-> FALSE, t |-> ZeroNode]
  ELSE DocumentOf(sc, ParseBlock(sc, j, sc[j].indent))

ParseScanned(sc) == ParseFrom(sc, NextNonBlank(sc, 1))

ScanLines(lines) == [ln \in 1..Len(lines) |-> ScanLine(lines[ln], ln)]

\* yaml.Unmarshal([]byte(inputYaml), &t): err reports a parse error, t is the
\* document node (its single child is the root), or the zero node for a
\* document with no content.
Unmarshal(text) == ParseScanned(ScanLines(Split(text, NL)))

\* ------------------------------------------------------------ the inputs
\* Runner labels of different lengths, one a substring of the other and of
\* the key "runs-on".
Labels == { <<"n">>, <<"n", "o", "o", "n">> }

\* Label maps: every map from a set of old labels to new labels, the empty
\* map included.
LabelMaps == UNION {[D -> Labels] : D \in SUBSET Labels}

\* Job names, in document order.
JobNames == << <<"t">>, <<"u">> >>
MaxJobs == Len(JobNames)

\* How a job writes its runs-on field:
\*   none      no runs-on field
\*   mapping   runs-on: followed by a nested mapping (group: n)
\*   scalar    runs-on: n
\*   quoted    runs-on: "n" # n
\*   flow      runs-on: [n, noon]
\*   block     runs-on: followed by one "- n" line per label
JobShapes ==
  {[kind |-> k, labels |-> <<>>] : k \in {"none", "mapping"}}
  \cup {[kind |-> k, labels |-> <<l>>] : k \in {"scalar", "quoted"}, l \in Labels}
  \cup {[kind |-> k, labels |-> ls] :
          k \in {"flow", "block"}, ls \in UNION {[1..n -> Labels] : n \in 1..MaxLabels}}

RECURSIVE SumLabels(_)
SumLabels(js) == IF js = <<>> THEN 0 ELSE Len(Head(js).labels) + SumLabels(Tail(js))

\* A document: a first line that is well formed (on: [p]) or not (on: [p),
\* the jobs, and whether the text ends with a newline.
DocShapes ==
  {[header |-> h, nl |-> e, jobs |-> js] :
     h \in {"ok", "bad"}, e \in BOOLEAN,
     js \in {x \in UNION {[1..k -> JobShapes] : k \in 0..MaxJobs} :
               SumLabels(x) <= MaxLabels}}

RECURSIVE FlowItems(_)
FlowItems(ls) ==
  IF Len(ls) = 1 THEN ls[1]
  ELSE ls[1] \o <<COMMA, SP>> \o FlowItems(Tail(ls))

RunsOnKey == <<SP, SP>> \o RUNS_ON \o <<COLON>>

\* The physical lines of a runs-on field of the given kind holding the given
\* labels; a quoted scalar is followed by a comment that repeats the text
\* in note.
RunsOnText(kind, labels, note) ==
  CASE kind = "none" -> <<>>
    [] kind = "mapping" ->
         << RunsOnKey, <<SP, SP, SP, "g", "r", "o", "u", "p", COLON, SP, "n">> >>
    [] kind = "scalar" -> << RunsOnKey \o <<SP>> \o labels[1] >>
    [] kind = "quoted" ->
         << RunsOnKey \o <<SP, QUOTE>> \o labels[1] \o <<QUOTE, SP, HASH, SP>> \o note >>
    [] kind = "flow" ->
         << RunsOnKey \o <<SP, LBRACKET>> \o FlowItems(labels) \o <<RBRACKET>> >>
    [] kind = "block" ->
         <<RunsOnKey>> \o [k \in 1..Len(labels) |-> <<SP, SP, SP, DASH, SP>> \o labels[k]]

\* The physical lines of a job's runs-on field.
RunsOnLines(job) ==
  RunsOnText(job.kind, job.labels,
             IF Len(job.labels) > 0 THEN job.labels[1] ELSE <<>>)

\* The physical lines of a job: its key, a name field, its runs-on field.
JobLines(name, job) ==
  << <<SP>> \o name \o <<COLON>>,
     <<SP, SP, "n", "a", "m", "e", COLON, SP, "n">> >> \o RunsOnLines(job)

RECURSIVE AllJobLines(_, _)
AllJobLines(js, k) ==
  IF k > Len(js) THEN <<>>
  ELSE JobLines(JobNames[k], js[k]) \o AllJobLines(js, k + 1)

HeaderLine(h) ==
  IF h = "ok" THEN <<"o", "n", COLON, SP, LBRACKET, "p", RBRACKET>>
  ELSE <<"o", "n", COLON, SP, LBRACKET, "p">>

\* The physical lines of a document.
DocLines(d) ==
  <<HeaderLine(d.header)>>
  \o (IF Len(d.jobs) = 0 THEN <<>> ELSE <<JOBS \o <<COLON>>>> \o AllJobLines(d.jobs, 1))

\* The workflow text handed to ReplaceRunnerLabels.
DocText(d) == Join(DocLines(d), NL) \o (IF d.nl THEN <<NL>> ELSE <<>>)

\* ------------------------------------------------------------ the program
\* Mutant: the length check never sees an empty map.
MapNeverEmpty(m) == FALSE

\* len(labelMap) == 0
MapIsEmpty(m) == DOMAIN m = {}

\* newLabel, ok := labelMap[oldLabel]
HasKey(m, k) == k \in DOMAIN m

\* permissions.IterateNode(&t, "jobs", "!!map", 0): the value of the
\* top-level entry whose key is "jobs", when that value is a mapping.
IterateNode(node, identifier, kind) ==
  IF Len(node.Content) = 0 THEN NilNode
  ELSE LET root == node.Content[1]
           hits == {k \in 1..(Len(root.Content) \div 2) :
                      /\ root.Content[2 * k - 1].Value = identifier
                      /\ root.Content[2 * k].Kind = kind}
       IN IF root.Kind # "MappingNode" \/ hits = {} THEN NilNode
          ELSE root.Content[2 * (CHOOSE k \in hits : \A q \in hits : k <= q)]

\* Mutant: the key is not compared; the value of the first entry is returned.
FindRunsOnNodeAnyKey(jobNode) ==
  IF Len(jobNode.Content) >= 2 THEN jobNode.Content[2] ELSE NilNode

\* findRunsOnNode: the value after the first key "runs-on" at an even
\* position of jobNode.Content, or nil.
FindRunsOnNode(jobNode) ==
  LET n == Len(jobNode.Content)
      hits == {k \in 0..(n - 1) :
                 /\ k % 2 = 0
                 /\ jobNode.Content[k + 1].Value = RUNS_ON
                 /\ k + 1 < n}
  IN IF hits = {} THEN NilNode
     ELSE jobNode.Content[(CHOOSE k \in hits : \A q \in hits : k <= q) + 2]

\* Mutant: the old label is recorded as the new label.
MappingKeepsOld(jobName, oldLabel, newLabel, node, isArray, idx) ==
  [jobName |-> jobName, oldLabel |-> oldLabel, newLabel |-> oldLabel,
   lineNum |-> node.Line - 1, columnNum |-> node.Column - 1,
   isArray |-> isArray, arrayIndex |-> idx]

\* Mutant: the line is not converted to 0-based.
MappingOneBasedLine(jobName, oldLabel, newLabel, node, isArray, idx) ==
  [jobName |-> jobName, oldLabel |-> oldLabel, newLabel |-> newLabel,
   lineNum |-> node.Line, columnNum |-> node.Column - 1,
   isArray |-> isArray, arrayIndex |-> idx]

\* RunnerLabelMapping
Mapping(jobName, oldLabel, newLabel, node, isArray, idx) ==
  [jobName |-> jobName, oldLabel |-> oldLabel, newLabel |-> newLabel,
   lineNum |-> node.Line - 1, columnNum |-> node.Column - 1,
   isArray |-> isArray, arrayIndex |-> idx]

RECURSIVE SequenceMappings(_, _, _, _)
\* The loop over runsOnNode.Content of the SequenceNode case.
SequenceMappings(jobName, content, m, idx) ==
  IF idx >= Len(content) THEN <<>>
  ELSE LET labelNode == content[idx + 1]
           oldLabel == labelNode.Value
       IN (IF HasKey(m, oldLabel)
           THEN <<Mapping(jobName, oldLabel, m[oldLabel], labelNode, TRUE, idx)>>
           ELSE <<>>)
          \o SequenceMappings(jobName, content, m, idx + 1)

\* The switch on runsOnNode.Kind: the replacements one job contributes.
JobMappings(jobName, runsOnNode, m) ==
  CASE runsOnNode.Kind = "ScalarNode" ->
         IF HasKey(m, runsOnNode.Value)
         THEN <<Mapping(jobName, runsOnNode.Value, m[runsOnNode.Value],
                        runsOnNode, FALSE, 0)>>
         ELSE <<>>
    [] runsOnNode.Kind = "SequenceNode" ->
         SequenceMappings(jobName, runsOnNode.Content, m, 0)
    [] OTHER -> <<>>

\* oldLine[r.columnNum:] with the first occurrence of the old label replaced.
NewLineAfterColumn(line, d) ==
  ReplaceFirstAnywhere(Slice(line, d.columnNum, Len(line)), d.oldLabel, d.newLabel)

\* Mutant: the first occurrence on the whole line is replaced.
PatchWholeLine(line, d) == ReplaceFirstAnywhere(line, d.oldLabel, d.newLabel)

\* prefix + newLineAfterColumn
PatchLine(line, d) ==
  Slice(line, 0, d.columnNum) \o NewLineAfterColumn(line, d)

\* r.lineNum >= len(inputLines)
OutOfLines(lines, d) == d.lineNum >= Len(lines)

\* oldLine[:r.columnNum] panics (slice bounds out of range) when the column
\* is past the end of the line.
SliceFaults(line, d) == d.columnNum > Len(line)

\* The returned triple (text, changed, err != nil).
Result(text, changed, err) == [text |-> text, changed |-> changed, err |-> err]

\* Nothing returned yet.
NoResult == Result(<<>>, FALSE, FALSE)

\* Mutant: the input text is returned along with the error.
ParseErrorKeepsText(text) == Result(text, FALSE, TRUE)

\* return "", false, fmt.Errorf("unable to parse yaml: %v", err)
ParseErrorResult(text) == Result(<<>>, FALSE, TRUE)

\* return inputYaml, false, nil
UnchangedResult(text) == Result(text, FALSE, FALSE)

VARIABLES
  shape,         \* how the input document of the first call was written
  inputYaml,     \* parameter inputYaml
  labelMap,      \* parameter labelMap
  pc,            \* position in ReplaceRunnerLabels
  t,             \* the parsed document
  jobsNode,      \* the jobs mapping
  i,             \* index of the job loop
  replacements,  \* the collected RunnerLabelMapping values
  inputLines,    \* the physical lines being patched
  r,             \* index of the replacement loop
  oldLine,       \* the target line before the last replacement applied
  updated,       \* the updated flag
  ret,           \* the returned (text, changed, err)
  pass,          \* 1: first call, 2: the call on the first call's output
  first          \* input and result of the first call, once it has returned

vars == <<shape, inputYaml, labelMap, pc, t, jobsNode, i, replacements,
          inputLines, r, oldLine, updated, ret, pass, first>>

locals == <<t, jobsNode, i, replacements, inputLines, r, oldLine, updated>>

Init ==
  /\ shape \in DocShapes
  /\ labelMap \in LabelMaps
  /\ inputYaml = DocText(shape)
  /\ pc = "start"
  /\ t = ZeroNode
  /\ jobsNode = NilNode
  /\ i = 0
  /\ replacements = <<>>
  /\ inputLines = <<>>
  /\ r = 0
  /\ oldLine = <<>>
  /\ updated = FALSE
  /\ ret = NoResult
  /\ pass = 1
  /\ first = [input |-> <<>>, text |-> <<>>, changed |-> FALSE]

\* if len(labelMap) == 0 { return inputYaml, false, nil }
CheckLabelMap ==
  /\ pc = "start"
  /\ IF MapIsEmpty(labelMap)
     THEN pc' = "done" /\ ret' = UnchangedResult(inputYaml)
     ELSE pc' = "parse" /\ ret' = ret
  /\ UNCHANGED <<shape, inputYaml, labelMap, locals, pass, first>>

\* yaml.Unmarshal and its error return
ParseYaml ==
  /\ pc = "parse"
  /\ LET u == Unmarshal(inputYaml)
     IN IF u.err
        THEN pc' = "done" /\ ret' = ParseErrorResult(inputYaml) /\ t' = t
        ELSE pc' = "jobs" /\ ret' = ret /\ t' = u.t
  /\ UNCHANGED <<shape, inputYaml, labelMap, jobsNode, i, replacements,
                 inputLines, r, oldLine, updated, pass, first>>

\* jobsNode := permissions.IterateNode(...); nil returns the input unchanged
FindJobs ==
  /\ pc = "jobs"
  /\ jobsNode' = IterateNode(t, JOBS, "MappingNode")
  /\ IF jobsNode' = NilNode
     THEN pc' = "done" /\ ret' = UnchangedResult(inputYaml)
     ELSE pc' = "locate" /\ ret' = ret
  /\ i' = 0
  /\ UNCHANGED <<shape, inputYaml, labelMap, t, replacements, inputLines, r,
                 oldLine, updated, pass, first>>

\* One iteration of the loop over jobsNode.Content.
LocateJob ==
  /\ pc = "locate"
  /\ i < Len(jobsNode.Content)
  /\ LET jobNameNode == jobsNode.Content[i + 1]
         jobNode == jobsNode.Content[i + 2]
         runsOnNode == FindRunsOnNode(jobNode)
     IN replacements' =
          IF runsOnNode = NilNode THEN replacements
          ELSE replacements \o JobMappings(jobNameNode.Value, runsOnNode, labelMap)
  /\ i' = i + 2
  /\ UNCHANGED <<shape, inputYaml, labelMap, pc, t, jobsNode, inputLines, r,
                 oldLine, updated, ret, pass, first>>

\* After the loop: no replacement returns the input unchanged; otherwise
\* the text is split into lines and updated starts false.
BeginPatch ==
  /\ pc = "locate"
  /\ i >= Len(jobsNode.Content)
  /\ IF Len(replacements) = 0
     THEN /\ pc' = "done"
          /\ ret' = UnchangedResult(inputYaml)
          /\ inputLines' = inputLines
     ELSE /\ pc' = "patch"
          /\ ret' = ret
          /\ inputLines' = Split(inputYaml, NL)
  /\ updated' = FALSE
  /\ r' = 0
  /\ UNCHANGED <<shape, inputYaml, labelMap, t, jobsNode, i, replacements,
                 oldLine, pass, first>>

\* One iteration of the loop over replacements.
ApplyReplacement ==
  /\ pc = "patch"
  /\ r < Len(replacements)
  /\ LET d == replacements[r + 1]
     IN IF OutOfLines(inputLines, d)
        THEN UNCHANGED <<pc, inputLines, oldLine, updated>>
        ELSE IF SliceFaults(inputLines[d.lineNum + 1], d)
          THEN /\ pc' = "panic"
               /\ oldLine' = inputLines[d.lineNum + 1]
               /\ UNCHANGED <<inputLines, updated>>
          ELSE /\ oldLine' = inputLines[d.lineNum + 1]
               /\ inputLines' = [inputLines EXCEPT
                                   ![d.lineNum + 1] = PatchLine(inputLines[d.lineNum + 1], d)]
               /\ updated' = TRUE
               /\ pc' = pc
  /\ r' = r + 1
  /\ UNCHANGED <<shape, inputYaml, labelMap, t, jobsNode, i, replacements,
                 ret, pass, first>>

\* output := strings.Join(inputLines, "\n"); return output, updated, nil
ReturnOutput ==
  /\ pc = "patch"
  /\ r >= Len(replacements)
  /\ pc' = "done"
  /\ ret' = Result(Join(inputLines, NL), updated, FALSE)
  /\ UNCHANGED <<shape, inputYaml, labelMap, locals, pass, first>>

\* The caller applies the same label map to the text the first call returned.
Reapply ==
  /\ pc = "done"
  /\ pass = 1
  /\ ~ret.err
  /\ first' = [input |-> inputYaml, text |-> ret.text, changed |-> ret.changed]
  /\ inputYaml' = ret.text
  /\ pass' = 2
  /\ pc' = "start"
  /\ t' = ZeroNode
  /\ jobsNode' = NilNode
  /\ i' = 0
  /\ replacements' = <<>>
  /\ inputLines' = <<>>
  /\ r' = 0
  /\ oldLine' = <<>>
  /\ updated' = FALSE
  /\ ret' = NoResult
  /\ UNCHANGED <<shape, labelMap>>

Next ==
  \/ CheckLabelMap
  \/ ParseYaml
  \/ FindJobs
  \/ LocateJob
  \/ BeginPatch
  \/ ApplyReplacement
  \/ ReturnOutput
  \/ Reapply

Spec == Init /\ [][Next]_vars

\* ------------------------------------------------------------ properties
\* What the input document was written to hold, for stating what the
\* output must hold.

\* The label is a key of the label map.
Eligible(l) == l \in DOMAIN labelMap

\* The label the map assigns, or the label itself when it is not a key.
MapLabel(l) == IF Eligible(l) THEN labelMap[l] ELSE l

MappedLabels(ls) == [k \in 1..Len(ls) |-> MapLabel(ls[k])]

\* Number of eligible labels a job's runs-on field holds.
EligibleCount(job) == Cardinality({k \in 1..Len(job.labels) : Eligible(job.labels[k])})

RECURSIVE JobKeyLine(_, _)
\* 0-based index of the physical line holding the key of job k.
JobKeyLine(js, k) ==
  IF k = 1 THEN 2
  ELSE JobKeyLine(js, k - 1) + 2 + Len(RunsOnLines(js[k - 1]))

\* 0-based index of the first physical line of job k's runs-on field.
RunsOnStart(k) == JobKeyLine(shape.jobs, k) + 2

\* The runs-on lines of a job with every eligible label replaced by its
\* mapped value and everything else as written.
ExpectedRunsOn(job) ==
  RunsOnText(job.kind, MappedLabels(job.labels),
             IF Len(job.labels) > 0 THEN job.labels[1] ELSE <<>>)

\* The physical lines of the returned text.
OutLines == Split(ret.text, NL)

\* The lines of the returned text where job k's runs-on field was written.
RunsOnOutput(k) ==
  SubSeq(OutLines, RunsOnStart(k) + 1,
         RunsOnStart(k) + Len(RunsOnLines(shape.jobs[k])))

\* The first call has returned without an error.
FirstReturned == pass = 1 /\ pc = "done" /\ ~ret.err

\* The first call has ended, by returning or by faulting.
FirstEnded == pass = 1 /\ pc \in {"done", "panic"}

JobIndexes == 1..Len(shape.jobs)

\* The label map has no entry.
EmptyMap == DOMAIN labelMap = {}

\* No job's runs-on field holds an eligible label.
NothingEligible == \A k \in JobIndexes : EligibleCount(shape.jobs[k]) = 0

\* 0-based indexes of the physical lines that hold an eligible runs-on value.
EligibleLines ==
  UNION {
    IF shape.jobs[k].kind = "block"
    THEN {RunsOnStart(k) + q : q \in {x \in 1..Len(shape.jobs[k].labels) :
                                        Eligible(shape.jobs[k].labels[x])}}
    ELSE IF EligibleCount(shape.jobs[k]) > 0 THEN {RunsOnStart(k)} ELSE {}
    : k \in JobIndexes}

\* The text ends with a newline.
EndsWithNewline(text) == Len(text) > 0 /\ text[Len(text)] = NL

\* No new label of the map is itself a key of the map.
NoChainedLabel == \A l \in DOMAIN labelMap : labelMap[l] \notin DOMAIN labelMap

\* No physical line holds more than one eligible runs-on element.
OneEligiblePerLine ==
  \A k \in JobIndexes :
    shape.jobs[k].kind = "flow" => EligibleCount(shape.jobs[k]) <= 1

\* C1: when the call on a parseable document with a non-empty map returns,
\* every job whose runs-on value is a list (flow or block style) has each
\* eligible element replaced by its mapped value, the other elements, the
\* order, the brackets and the separators as written - whatever the lengths
\* of the labels and however many eligible elements share a line.
C1_SequenceElementsReplaced ==
  (FirstReturned /\ ~EmptyMap /\ shape.header = "ok") =>
    \A k \in JobIndexes :
      shape.jobs[k].kind \in {"flow", "block"} =>
        RunsOnOutput(k) = ExpectedRunsOn(shape.jobs[k])

\* C3: on a call that returns no error, changed is true exactly when the
\* returned text differs from the input text.
C3_ChangedIffTextDiffers ==
  (pc = "done" /\ ~ret.err) => (ret.changed <=> ret.text # inputYaml)

\* C9: every replacement the patcher is about to process either has its line
\* index outside the line array (and is skipped) or has a column no greater
\* than the current length of its target line, so that the split into
\* prefix and suffix is defined and the patcher does not fault.
C9_PatcherNeverFaults ==
  /\ pc # "panic"
  /\ (pc = "patch" /\ r < Len(replacements)) =>
       LET d == replacements[r + 1]
       IN \/ OutOfLines(inputLines, d)
          \/ d.columnNum <= Len(inputLines[d.lineNum + 1])

C4_Locality ==
  FirstReturned =>
    LET inLines == Split(inputYaml, NL)
    IN /\ Len(OutLines) = Len(inLines)
       /\ EndsWithNewline(ret.text) <=> EndsWithNewline(inputYaml)
       /\ \A n \in 1..Len(inLines) :
            (n - 1) \notin EligibleLines => OutLines[n] = inLines[n]
       /\ \A k \in JobIndexes :
            EligibleCount(shape.jobs[k]) = 0 =>
              SubSeq(OutLines, JobKeyLine(shape.jobs, k) + 1,
                     RunsOnStart(k) + Len(RunsOnLines(shape.jobs[k])))
                = JobLines(JobNames[k], shape.jobs[k])

\* A call has rewritten the second job of a document whose first job holds
\* only labels that are not in the map.
C4_Witness ==
  /\ FirstReturned /\ ret.changed /\ ret.text # inputYaml
  /\ shape.nl
  /\ Len(shape.jobs) = 2
  /\ Len(shape.jobs[1].labels) > 0 /\ EligibleCount(shape.jobs[1]) = 0
  /\ EligibleCount(shape.jobs[2]) > 0

\* C5: when a job's runs-on value is a single scalar (plain or quoted) whose
\* text is a key of the map, the call returns changed = true with no error,
\* and the line of every such job holds the mapped value in place of the
\* scalar's text with the key, indentation, quotes and trailing comment as
\* written.
C5_ScalarReplaced ==
  (/\ FirstEnded /\ ~EmptyMap /\ shape.header = "ok"
   /\ \E k \in JobIndexes :
        shape.jobs[k].kind \in {"scalar", "quoted"} /\ EligibleCount(shape.jobs[k]) = 1)
  => /\ pc = "done" /\ ~ret.err /\ ret.changed
     /\ \A k \in JobIndexes :
          (shape.jobs[k].kind \in {"scalar", "quoted"} /\ EligibleCount(shape.jobs[k]) = 1)
            => RunsOnOutput(k) = ExpectedRunsOn(shape.jobs[k])

\* C6: a document that cannot be parsed, with a non-empty map, makes the
\* call return an error with empty text and changed = false; at that point
\* no replacement has been collected and no line has been split or patched;
\* and patching starts only once the loop over the jobs has ended.
C6_ParseFailureAllOrNothing ==
  /\ (pc = "done" /\ ret.err) =>
       /\ ret.text = <<>> /\ ~ret.changed
       /\ replacements = <<>> /\ inputLines = <<>> /\ ~updated /\ r = 0
  /\ (pass = 1 /\ pc = "done" /\ ~EmptyMap) => (ret.err <=> shape.header = "bad")
  /\ pc \in {"patch", "panic"} => i >= Len(jobsNode.Content)

\* A call on an unparseable document that holds an eligible label has
\* returned its error.
C6_Witness ==
  /\ pc = "done" /\ ret.err /\ shape.header = "bad"
  /\ \E k \in JobIndexes : EligibleCount(shape.jobs[k]) > 0

\* C7: with an empty label map the call never reaches the parse step and
\* returns the input text, changed = false and no error, whether or not
\* the text can be parsed.
C7_EmptyMapShortCircuit ==
  EmptyMap =>
    /\ pc \in {"start", "done"}
    /\ t = ZeroNode
    /\ pc = "done" => ret = Result(inputYaml, FALSE, FALSE)

\* A call with an empty map on an unparseable document has returned it.
C7_Witness ==
  /\ EmptyMap /\ pc = "done" /\ shape.header = "bad"
  /\ ret.text = inputYaml /\ Len(shape.jobs) > 0

\* C8: for a parseable document and a non-empty map, when there is no jobs
\* field, or no job has a runs-on field, or the runs-on fields are mappings,
\* or no runs-on label is a key of the map, the call returns the input
\* text, changed = false and no error.
C8_NoOpConditions ==
  (FirstEnded /\ ~EmptyMap /\ shape.header = "ok" /\ NothingEligible) =>
    (pc = "done" /\ ret = Result(inputYaml, FALSE, FALSE))

\* A call has returned for a document whose first job has a mapping as its
\* runs-on value and whose second job has a label that is not in the map,
\* while the map has a key that is written elsewhere in the document.
C8_Witness ==
  /\ FirstReturned /\ ~EmptyMap /\ NothingEligible
  /\ Len(shape.jobs) = 2
  /\ shape.jobs[1].kind = "mapping"
  /\ shape.jobs[2].kind = "scalar"
  /\ Eligible(<<"n">>)

\* C10: a replacement the patcher applies leaves the number of lines and
\* every line but its target unchanged, leaves the target's characters
\* before the recorded column unchanged, and replaces exactly the first
\* occurrence of the old label that starts at or after the recorded column
\* (nothing, when there is none).
C10_SuffixScopedSingleReplacement ==
  [][(pc = "patch" /\ pc' = "patch" /\ r' = r + 1) =>
       LET d == replacements[r + 1]
           ln == d.lineNum + 1
           old == inputLines[ln]
           new == inputLines'[ln]
           occ == {p \in d.columnNum..(Len(old) - Len(d.oldLabel)) :
                     HasAt(old, d.oldLabel, p)}
       IN /\ Len(inputLines') = Len(inputLines)
          /\ \A n \in 1..Len(inputLines) : n # ln => inputLines'[n] = inputLines[n]
          /\ Slice(new, 0, d.columnNum) = Slice(old, 0, d.columnNum)
          /\ IF occ = {} THEN new = old
             ELSE LET p == CHOOSE x \in occ : \A y \in occ : x <= y
                  IN new = Slice(old, 0, p) \o d.newLabel
                             \o Slice(old, p + Len(d.oldLabel), Len(old))
    ]_vars

\* A replacement has been applied to a line that holds the old label's text
\* before the recorded column as well: the line changed, its part before
\* the column did not.
C10_Witness ==
  /\ pc = "patch" /\ r > 0 /\ updated
  /\ LET d == replacements[r]
     IN /\ Index(Slice(oldLine, 0, d.columnNum), d.oldLabel) >= 0
        /\ inputLines[d.lineNum + 1] # oldLine
        /\ Slice(inputLines[d.lineNum + 1], 0, d.columnNum)
             = Slice(oldLine, 0, d.columnNum)

====
